---------------------------- MODULE Spec2Model ----------------------------
(***************************************************************************)
(* The accounts tab of the banking panel (src/src/tab.ts, initAccountsTab):*)
(* the search box with its debounced re-query, the sort selector, the      *)
(* banker checkboxes, the bulk delete with its confirmation prompt, and    *)
(* the pipeline checkNames that reconciles, filters, sorts, caps and       *)
(* renders.                                                                *)
(*                                                                         *)
(* Strings are sequences of one-character strings, so that upper-casing,   *)
(* trimming, substring search and the balance regular expression are       *)
(* computed character by character as the JavaScript does.                 *)
(***************************************************************************)
EXTENDS Integers, Sequences, FiniteSets, TLC

(***************************************************************************)
(* Characters and strings                                                  *)
(***************************************************************************)
Lower == <<"a","b","c","d","e","f","g","h","i","j","k","l","m",
           "n","o","p","q","r","s","t","u","v","w","x","y","z">>
Upper == <<"A","B","C","D","E","F","G","H","I","J","K","L","M",
           "N","O","P","Q","R","S","T","U","V","W","X","Y","Z">>
Digits == <<"0","1","2","3","4","5","6","7","8","9">>

SetMin(S) == CHOOSE x \in S : \A y \in S : x <= y
SetMax(S) == CHOOSE x \in S : \A y \in S : x >= y

\* One character of String.prototype.toLocaleUpperCase.
toUpperChar(c) ==
    IF \E i \in 1..26 : Lower[i] = c
    THEN Upper[CHOOSE i \in 1..26 : Lower[i] = c]
    ELSE c

\* input.value.toLocaleUpperCase()
toLocaleUpperCase(s) == [i \in 1..Len(s) |-> toUpperChar(s[i])]

IsSpace(c) == c = " "

\* String.prototype.trim: leading and trailing white space removed.
trim(s) ==
    LET keep == {i \in 1..Len(s) : ~IsSpace(s[i])}
    IN  IF keep = {} THEN <<>> ELSE SubSeq(s, SetMin(keep), SetMax(keep))

\* String.prototype.includes: sub occurs in s as a contiguous substring.
includes(s, sub) ==
    \E i \in 0..(Len(s) - Len(sub)) : SubSeq(s, i + 1, i + Len(sub)) = sub

IsDigit(c) == \E d \in 1..10 : Digits[d] = c
DigitVal(c) == (CHOOSE d \in 1..10 : Digits[d] = c) - 1

\* Unary plus on a string of decimal digits.
RECURSIVE toNumber(_)
toNumber(ds) ==
    IF ds = <<>> THEN 0
    ELSE 10 * toNumber(SubSeq(ds, 1, Len(ds) - 1)) + DigitVal(ds[Len(ds)])

\* The literal part of /balance:[<>]?\d+/i, upper-cased (the flag i makes
\* the comparison case-insensitive).
BalanceLiteral == <<"B","A","L","A","N","C","E",":">>

\* balancePatternAt with a slip: the colon is optional, /balance:?[<>]?\d+/i.
balancePatternAtOptionalColon(s, i) ==
    LET lit == SubSeq(BalanceLiteral, 1, Len(BalanceLiteral) - 1)
        tailAt(j) ==
            \/ j <= Len(s) /\ IsDigit(s[j])
            \/ j + 1 <= Len(s) /\ s[j] \in {"<", ">"} /\ IsDigit(s[j + 1])
    IN  /\ i + Len(lit) - 1 <= Len(s)
        /\ \A k \in 1..Len(lit) : toUpperChar(s[i + k - 1]) = lit[k]
        /\ \/ tailAt(i + Len(lit))
           \/ i + Len(lit) <= Len(s) /\ s[i + Len(lit)] = ":" /\ tailAt(i + Len(lit) + 1)

\* /balance:[<>]?\d+/i matched at position i of s.
balancePatternAt(s, i) ==
    /\ i + Len(BalanceLiteral) - 1 <= Len(s)
    /\ \A k \in 1..Len(BalanceLiteral) : toUpperChar(s[i + k - 1]) = BalanceLiteral[k]
    /\ LET j == i + Len(BalanceLiteral)
       IN  \/ j <= Len(s) /\ IsDigit(s[j])
           \/ j + 1 <= Len(s) /\ s[j] \in {"<", ">"} /\ IsDigit(s[j + 1])

\* /balance:[<>]?\d+/i.test(s): the pattern is not anchored.
balancePatternTest(s) == \E i \in 1..Len(s) : balancePatternAt(s, i)

\* name.match(/(\d+)/): the leftmost maximal run of digits, <<>> when the
\* string holds no digit.
matchDigits(s) ==
    LET ds == {i \in 1..Len(s) : IsDigit(s[i])}
    IN  IF ds = {} THEN <<>>
        ELSE LET p == SetMin(ds)
                 q == SetMax({e \in p..Len(s) : \A k \in p..e : IsDigit(s[k])})
             IN  SubSeq(s, p, q)


(***************************************************************************)
(* Account records and the two stores                                      *)
(*                                                                         *)
(* An account is [name, balance, last_daily_award]; last_daily_award is    *)
(* <<>> when the field is undefined and <<t>> when it holds the epoch t.   *)
(* The Record Store is the sequence getAll() returns; the Banker Flag      *)
(* Store is the set of names getBankers() returns.                         *)
(***************************************************************************)
Account(n, b, d) == [name |-> n, balance |-> b, last_daily_award |-> d]

\* !epoch for number | undefined: undefined and 0 are both falsy.
Falsy(d) == d = <<>> \/ d[1] = 0

\* BankerManager.isBanker
isBanker(bankerSet, n) == n \in bankerSet

\* BankerManager.setBanker
setBanker(bankerSet, n, flag) ==
    IF flag THEN bankerSet \cup {n} ELSE bankerSet \ {n}

\* AccountManager.removeAccounts
removeAccounts(accts, names) == SelectSeq(accts, LAMBDA a : a.name \notin names)

(***************************************************************************)
(* Rendering                                                               *)
(***************************************************************************)
\* formatDate: 'Never' for a falsy epoch, else the locale date and time,
\* which show the epoch to the second.
formatDate(d) == IF Falsy(d) THEN <<"Never">> ELSE <<d[1] \div 1000>>

\* showAccounts: the container is emptied and one row is built per account,
\* its checkbox checked iff the account is a banker at that moment.
showAccounts(accts, bankerSet) ==
    [i \in 1..Len(accts) |->
        [account_name     |-> accts[i].name,
         text             |-> accts[i].name,
         last_daily_award |-> formatDate(accts[i].last_daily_award),
         checked          |-> isBanker(bankerSet, accts[i].name),
         value            |-> accts[i].balance]]

\* querySelectorAll('tr[account_name]') mapped to the attribute.
RowNames(rws) == {rws[i].account_name : i \in 1..Len(rws)}

\* The names of a list of accounts, and of a list of rows, in order.
NamesOf(accts) == [i \in 1..Len(accts) |-> accts[i].name]
RowNameSeq(rws) == [i \in 1..Len(rws) |-> rws[i].account_name]

(***************************************************************************)
(* checkNames, step by step                                                *)
(***************************************************************************)
\* updateBankers with a slip: a checked box sets the flag, an unchecked box
\* is skipped instead of clearing it.
updateBankersSetOnly(rws, bankerSet, lo, hi) ==
    bankerSet \cup {rws[i].account_name : i \in {j \in lo..hi : rws[j].checked}}

\* "Update bankers": every rendered row's checkbox state is written to the
\* Banker Flag Store, rows lo..hi in document order.  The loop is unfolded
\* by halves (first half, then second half on its result), which keeps the
\* evaluation shallow for a page of 300 rows.
RECURSIVE updateBankers(_, _, _, _)
updateBankers(rws, bankerSet, lo, hi) ==
    IF lo > hi THEN bankerSet
    ELSE IF lo = hi
    THEN setBanker(bankerSet, rws[lo].account_name, rws[lo].checked)
    ELSE LET mid   == (lo + hi) \div 2
             first == updateBankers(rws, bankerSet, lo, mid)
         IN  IF first = {} THEN updateBankers(rws, {}, mid + 1, hi)
             ELSE updateBankers(rws, first, mid + 1, hi)

\* const name = input.value.toLocaleUpperCase().trim()
searchName(value) == trim(toLocaleUpperCase(value))

\* IsBankerToken with a slip: the token in lower case, which the upper-cased
\* search name never equals.
IsBankerTokenLower == <<"i","s",":","b","a","n","k","e","r">>

\* The token of the banker query, 'IS:BANKER'.
IsBankerToken == <<"I","S",":","B","A","N","K","E","R">>

\* The amount of a balance query: +result[1] of name.match(/(\d+)/).
amountOf(name) == toNumber(matchDigits(name))

\* accountFilter with a slip: '>' is looked for before '<'.
accountFilterGreaterFirst(name, bankerSet, account) ==
    IF name = <<>> THEN TRUE
    ELSE IF name = IsBankerToken THEN account.name \in bankerSet
    ELSE IF balancePatternTest(name) THEN
        IF includes(name, <<">">>) THEN account.balance > amountOf(name)
        ELSE IF includes(name, <<"<">>) THEN account.balance < amountOf(name)
        ELSE account.balance = amountOf(name)
    ELSE includes(account.name, name)

\* accountFilter with a slip: '<' is taken as "at most".
accountFilterAtMost(name, bankerSet, account) ==
    IF name = <<>> THEN TRUE
    ELSE IF name = IsBankerToken THEN account.name \in bankerSet
    ELSE IF balancePatternTest(name) THEN
        IF includes(name, <<"<">>) THEN account.balance <= amountOf(name)
        ELSE IF includes(name, <<">">>) THEN account.balance > amountOf(name)
        ELSE account.balance = amountOf(name)
    ELSE includes(account.name, name)

\* The predicate accountFilter that checkNames builds for the search name;
\* bankerSet is the value of getBankers() read when the predicate is built.
accountFilter(name, bankerSet, account) ==
    IF name = <<>> THEN TRUE
    ELSE IF name = IsBankerToken THEN account.name \in bankerSet
    ELSE IF balancePatternTest(name) THEN
        IF includes(name, <<"<">>) THEN account.balance < amountOf(name)
        ELSE IF includes(name, <<">">>) THEN account.balance > amountOf(name)
        ELSE account.balance = amountOf(name)
    ELSE includes(account.name, name)

\* this.accounts.getAll().filter(accountFilter)
filterAccounts(value, accts, bankerSet) ==
    LET name == searchName(value)
    IN  SelectSeq(accts, LAMBDA a : accountFilter(name, bankerSet, a))

SortTypes == {"bal_d", "bal_a", "daily_d", "daily_a"}

\* compare with a slip: a missing award date counts as the epoch 0, so the
\* accounts without one come first in ascending order.
compareAwardOrZero(sortType, a, b) ==
    LET award(x) == IF Falsy(x.last_daily_award) THEN 0 ELSE x.last_daily_award[1]
    IN  CASE sortType = "bal_d" -> b.balance - a.balance
          [] sortType = "bal_a" -> a.balance - b.balance
          [] sortType = "daily_d" -> award(b) - award(a)
          [] sortType = "daily_a" -> award(a) - award(b)
          [] OTHER -> 0

\* compare with a slip: the two directions of each key are exchanged.
compareDirectionsSwapped(sortType, a, b) ==
    CASE sortType = "bal_d" -> a.balance - b.balance
      [] sortType = "bal_a" -> b.balance - a.balance
      [] sortType = "daily_d" ->
            IF Falsy(a.last_daily_award) THEN 1
            ELSE IF Falsy(b.last_daily_award) THEN -1
            ELSE a.last_daily_award[1] - b.last_daily_award[1]
      [] sortType = "daily_a" ->
            IF Falsy(a.last_daily_award) THEN 1
            ELSE IF Falsy(b.last_daily_award) THEN -1
            ELSE b.last_daily_award[1] - a.last_daily_award[1]
      [] OTHER -> 0

\* The comparator the sort switch passes to Array.prototype.sort.
compare(sortType, a, b) ==
    CASE sortType = "bal_d" -> b.balance - a.balance
      [] sortType = "bal_a" -> a.balance - b.balance
      [] sortType = "daily_d" ->
            IF Falsy(a.last_daily_award) THEN 1
            ELSE IF Falsy(b.last_daily_award) THEN -1
            ELSE b.last_daily_award[1] - a.last_daily_award[1]
      [] sortType = "daily_a" ->
            IF Falsy(a.last_daily_award) THEN 1
            ELSE IF Falsy(b.last_daily_award) THEN -1
            ELSE a.last_daily_award[1] - b.last_daily_award[1]
      [] OTHER -> 0

\* The engine's Array.prototype.sort.  The comparators of daily_d and
\* daily_a return 1 for two accounts without award date, whichever comes
\* first, so they are not consistent comparison functions and the order the
\* sort produces is the engine's choice.  Engines differ in which of two
\* elements they hand to the comparator first: the one that comes later in
\* the array (a binary-insertion or merge step asking "does the newcomer go
\* before this one"), or the one that comes earlier (an insertion step
\* asking "does this one go after the newcomer").  The engine is fixed for
\* the life of the panel.
Engines == {"later_first", "earlier_first"}

\* One insertion of Array.prototype.sort: x moves left past every element e
\* that the comparator orders after it, and stops at the first it does not.
insert(eng, sorted, x, sortType) ==
    LET n == Len(sorted)
        after(e) == IF eng = "later_first"
                    THEN compare(sortType, x, e) < 0
                    ELSE compare(sortType, e, x) > 0
        stops(k) == k = n + 1 \/ ~after(sorted[n + 1 - k])
        k == CHOOSE c \in 1..(n + 1) : stops(c) /\ \A e \in 1..(c - 1) : ~stops(e)
        p == n + 1 - k
    IN  SubSeq(sorted, 1, p) \o <<x>> \o SubSeq(sorted, p + 1, n)

\* accounts.sort(comparator): elements lo..hi of accts are inserted, in
\* order, into the sorted list built so far.  The loop is unfolded by halves
\* as in updateBankers.
RECURSIVE insertRange(_, _, _, _, _, _)
insertRange(eng, sorted, accts, sortType, lo, hi) ==
    IF lo > hi THEN sorted
    ELSE IF lo = hi THEN insert(eng, sorted, accts[lo], sortType)
    ELSE LET mid   == (lo + hi) \div 2
             first == insertRange(eng, sorted, accts, sortType, lo, mid)
         IN  IF first = <<>> THEN insertRange(eng, <<>>, accts, sortType, mid + 1, hi)
             ELSE insertRange(eng, first, accts, sortType, mid + 1, hi)

sort(eng, accts, sortType) == insertRange(eng, <<>>, accts, sortType, 1, Len(accts))

\* The cap of the rendered list.
Cap == 300

\* capAccounts with a slip: the list is never cut.
capAccountsUncut(accts) == accts

\* if (accounts.length > 300) accounts.length = 300
capAccounts(accts) == IF Len(accts) > Cap THEN SubSeq(accts, 1, Cap) ELSE accts

\* capNotices with a slip: the notice is built after the list was cut, so it
\* reports the cut length.
capNoticesAfterCut(accts) ==
    IF Len(accts) > Cap THEN << <<Cap, Len(capAccounts(accts))>> >> ELSE <<>>

\* this.ui.notify(`Showing 300/${accounts.length} matches`): the messages
\* one run sends, each as <<300, accounts.length>>.
capNotices(accts) == IF Len(accts) > Cap THEN << <<Cap, Len(accts)>> >> ELSE <<>>

\* checkNames with a slip: the accounts are filtered before the checkbox
\* states are written to the Banker Flag Store, so the filter reads the
\* flags as they were when the run started.
checkNamesFilterFirst(eng, rws, value, sortType, accts, bankerSet) ==
    LET reconciled == updateBankers(rws, bankerSet, 1, Len(rws))
        sorted     == sort(eng, filterAccounts(value, accts, bankerSet), sortType)
    IN  [bankers |-> reconciled,
         sorted  |-> sorted,
         notices |-> capNotices(sorted),
         rows    |-> showAccounts(capAccounts(sorted), reconciled)]

\* checkNames as a function of what it reads: the rendered rows, the search
\* box, the sort selector and the two stores, on the engine eng.  It yields the Banker Flag
\* Store after reconciliation, the rows rendered, the notices sent, and
\* (for the properties) the filtered and sorted list before the cap.
checkNames(eng, rws, value, sortType, accts, bankerSet) ==
    LET reconciled == updateBankers(rws, bankerSet, 1, Len(rws))
        sorted     == sort(eng, filterAccounts(value, accts, reconciled), sortType)
    IN  [bankers |-> reconciled,
         sorted  |-> sorted,
         notices |-> capNotices(sorted),
         rows    |-> showAccounts(capAccounts(sorted), reconciled)]

(***************************************************************************)
(* State                                                                   *)
(***************************************************************************)
VARIABLES
    engine,      \* how the engine's sort calls the comparator (fixed)
    shownAtPrompt, \* the names in the page when the open prompt was opened (history)
    accounts,    \* Record Store: the sequence AccountManager.getAll() returns
    bankers,     \* Banker Flag Store: the set BankerManager.getBankers() returns
    value,       \* input.value, the text of the search box
    sortType,    \* value of the checked [name=sort] radio button
    rows,        \* the rendered tr[account_name] rows of the tbody, in order
    timer,       \* debounce timer: <<>> when none is pending, else <<time left>>
    prompt,      \* TRUE while the delete confirmation of ui.alert is open
    sinceInput,  \* time since the last input event, up to Delay (history)
    burst,       \* input events of the current burst, debounced runs since it began (history)
    last         \* the event handled by the step that led here, and what
                 \* its call of checkNames (if any) read and did (history)

vars == <<engine, shownAtPrompt, accounts, bankers, value, sortType, rows, timer, prompt,
          sinceInput, burst, last>>

\* debounce(checkNames, 300): the quiet period.
Delay == 300

\* Time advances in steps of at most Quantum.
Quantum == 150

\* Input events counted per burst (the count saturates).
MaxBurst == 2

\* Rows whose checkbox the user toggles: the first MaxToggle rendered rows.
MaxToggle == 2

Min2(a, b) == IF a <= b THEN a ELSE b

(***************************************************************************)
(* The record of an event.  For an event that calls checkNames: the text   *)
(* it filtered with, the rows in the page when it started, the Banker Flag *)
(* Store after its reconciliation, its filtered and sorted list before the *)
(* cap, and its notices.  For such an event and for an answer to the       *)
(* delete prompt: the two stores when the handler started.  For a toggled  *)
(* checkbox: target, the account name of its row and its new state.  For   *)
(* a confirmed deletion: atPrompt, the names the page showed when the      *)
(* prompt was opened.                                                      *)
(***************************************************************************)
Event(ev) ==
    [event |-> ev, ran |-> FALSE, value |-> <<>>, quiet |-> 0,
     startRows |-> <<>>, reconciled |-> {}, sorted |-> <<>>, notices |-> <<>>,
     accountsBefore |-> <<>>, bankersBefore |-> {}, target |-> <<>>,
     atPrompt |-> <<>>]

\* input.value as checkNames reads it (line 94): the text at the time of
\* the call.
inputValue == value

\* One call of checkNames by the handler of event ev.  rws are the rows in
\* the page when the call starts, st the sort type and accts the Record
\* Store it reads; write is the setBanker call a later listener of the same
\* event makes once checkNames has returned: <<>> for none, else
\* <<name, flag>>.
CallCheckNames(ev, rws, st, accts, write) ==
    LET r == checkNames(engine, rws, inputValue, st, accts, bankers)
    IN  /\ bankers' = IF write = <<>> THEN r.bankers
                      ELSE setBanker(r.bankers, write[1], write[2])
        /\ rows' = r.rows
        /\ last' = [event          |-> ev,
                    ran            |-> TRUE,
                    value          |-> inputValue,
                    quiet          |-> IF ev = "fire" THEN sinceInput ELSE 0,
                    startRows      |-> rws,
                    reconciled     |-> r.bankers,
                    sorted         |-> r.sorted,
                    notices        |-> r.notices,
                    accountsBefore |-> accounts,
                    bankersBefore  |-> bankers,
                    target         |-> write,
                    atPrompt       |-> IF ev = "delete" THEN shownAtPrompt ELSE <<>>]

(***************************************************************************)
(* Events                                                                  *)
(***************************************************************************)
\* debounce(checkNames, 300) called by an input event: the pending timer,
\* if any, is cleared and a new one is set for the whole delay.
debounce == <<Delay>>

\* Input with a slip: checkNames itself is registered as the input listener,
\* so every input event runs it at once.
InputUndebounced(t) ==
    /\ ~prompt
    /\ t # value
    /\ value' = t
    /\ sinceInput' = 0
    /\ burst' = [events |-> IF sinceInput < Delay
                            THEN Min2(burst.events + 1, MaxBurst) ELSE 1,
                 runs   |-> IF sinceInput < Delay
                            THEN Min2(burst.runs + 1, MaxBurst) ELSE 1]
    /\ LET r == checkNames(engine, rows, t, sortType, accounts, bankers)
       IN  /\ bankers' = r.bankers
           /\ rows' = r.rows
           /\ last' = [event          |-> "fire",
                       ran            |-> TRUE,
                       value          |-> t,
                       quiet          |-> sinceInput',
                       startRows      |-> rows,
                       reconciled     |-> r.bankers,
                       sorted         |-> r.sorted,
                       notices        |-> r.notices,
                       accountsBefore |-> accounts,
                       bankersBefore  |-> bankers,
                       target         |-> <<>>,
                       atPrompt       |-> <<>>]
    /\ UNCHANGED <<engine, shownAtPrompt, accounts, sortType, timer, prompt>>

\* The user edits the search box to text t: the input listener.
Input(t) ==
    /\ ~prompt
    /\ t # value
    /\ value' = t
    /\ timer' = debounce
    /\ sinceInput' = 0
    /\ burst' = IF timer # <<>>
                THEN [burst EXCEPT !.events = Min2(@ + 1, MaxBurst)]
                ELSE [events |-> 1, runs |-> 0]
    /\ last' = Event("none")
    /\ UNCHANGED <<engine, shownAtPrompt, accounts, bankers, sortType, rows, prompt>>

\* Time passes; a timer that is due fires before time passes further.
Tick ==
    /\ timer # <<0>>
    /\ sinceInput < Delay
    /\ LET d == IF timer = <<>> THEN Quantum ELSE Min2(Quantum, timer[1])
       IN  /\ sinceInput' = Min2(sinceInput + d, Delay)
           /\ timer' = IF timer = <<>> THEN <<>> ELSE <<timer[1] - d>>
    /\ last' = Event("none")
    /\ UNCHANGED <<engine, shownAtPrompt, accounts, bankers, value, sortType, rows, prompt, burst>>

\* The debounce timer fires: the debounced checkNames runs.
DebounceFire ==
    /\ timer = <<0>>
    /\ timer' = <<>>
    /\ burst' = [burst EXCEPT !.runs = Min2(@ + 1, MaxBurst)]
    /\ CallCheckNames("fire", rows, sortType, accounts, <<>>)
    /\ UNCHANGED <<engine, shownAtPrompt, accounts, value, sortType, prompt, sinceInput>>

\* The user picks another sort radio button: a change event.
ChangeSort(m) ==
    /\ ~prompt
    /\ m # sortType
    /\ sortType' = m
    /\ CallCheckNames("sort", rows, m, accounts, <<>>)
    /\ UNCHANGED <<engine, shownAtPrompt, accounts, value, timer, prompt, sinceInput, burst>>

\* ToggleBanker with a slip: the second listener writes the state the
\* checkbox had before the user toggled it.
ToggleBankerWritesOld(i) ==
    /\ ~prompt
    /\ i \in 1..Min2(Len(rows), MaxToggle)
    /\ LET toggled == [rows EXCEPT ![i].checked = ~@]
       IN  /\ bankers' = setBanker(checkNames(engine, toggled, inputValue, sortType,
                                              accounts, bankers).bankers,
                                   rows[i].account_name, rows[i].checked)
           /\ rows' = checkNames(engine, toggled, inputValue, sortType,
                                 accounts, bankers).rows
           /\ last' = [Event("toggle") EXCEPT
                          !.ran = TRUE,
                          !.value = inputValue,
                          !.startRows = toggled,
                          !.reconciled = checkNames(engine, toggled, inputValue, sortType,
                                                    accounts, bankers).bankers,
                          !.sorted = checkNames(engine, toggled, inputValue, sortType,
                                                accounts, bankers).sorted,
                          !.accountsBefore = accounts,
                          !.bankersBefore = bankers,
                          !.target = <<toggled[i].account_name, toggled[i].checked>>]
    /\ UNCHANGED <<engine, shownAtPrompt, accounts, value, sortType, timer, prompt, sinceInput, burst>>

\* The user toggles the banker checkbox of rendered row i: a change event.
\* The listener registered first (checkNames) runs on the page with the
\* checkbox already toggled; the listener registered second then writes the
\* flag of that row's account.
ToggleBanker(i) ==
    /\ ~prompt
    /\ i \in 1..Min2(Len(rows), MaxToggle)
    /\ LET toggled == [rows EXCEPT ![i].checked = ~@]
       IN  CallCheckNames("toggle", toggled, sortType, accounts,
                          <<toggled[i].account_name, toggled[i].checked>>)
    /\ UNCHANGED <<engine, shownAtPrompt, accounts, value, sortType, timer, prompt, sinceInput, burst>>

\* Any other change event in the tab (the search box committed, a balance
\* field edited): checkNames alone.
OtherChange ==
    /\ ~prompt
    /\ CallCheckNames("change", rows, sortType, accounts, <<>>)
    /\ UNCHANGED <<engine, shownAtPrompt, accounts, value, sortType, timer, prompt, sinceInput, burst>>

\* The user clicks the delete button: ui.alert opens the prompt.
DeleteClick ==
    /\ ~prompt
    /\ shownAtPrompt' = RowNameSeq(rows)
    /\ prompt' = TRUE
    /\ last' = Event("none")
    /\ UNCHANGED <<engine, accounts, bankers, value, sortType, rows, timer,
                   sinceInput, burst>>

Responses == {"Delete", "Cancel"}

\* AlertResponse with a slip: every account that matches the search is
\* removed, not only those with a row in the page.
AlertResponseAllMatches(response) ==
    /\ prompt
    /\ shownAtPrompt' = <<>>
    /\ prompt' = FALSE
    /\ IF response # "Delete"
       THEN /\ last' = [Event("cancel") EXCEPT !.startRows = rows,
                                                !.accountsBefore = accounts,
                                                !.bankersBefore = bankers]
            /\ UNCHANGED <<accounts, bankers, rows>>
       ELSE LET names == {a.name : a \in {accounts[i] : i \in 1..Len(accounts)}} \
                         {a.name : a \in {accounts[i] : i \in
                              {j \in 1..Len(accounts) :
                                  ~accountFilter(searchName(value), bankers, accounts[j])}}}
                left  == removeAccounts(accounts, names)
            IN  /\ accounts' = left
                /\ CallCheckNames("delete", rows, sortType, left, <<>>)
    /\ UNCHANGED <<engine, value, sortType, timer, sinceInput, burst>>

\* AlertResponse with a slip: the early return for an answer other than
\* 'Delete' is missing.
AlertResponseUnguarded(response) ==
    /\ prompt
    /\ shownAtPrompt' = <<>>
    /\ prompt' = FALSE
    /\ LET names == RowNames(rows)
           left  == removeAccounts(accounts, names)
       IN  /\ accounts' = left
           /\ CallCheckNames(IF response = "Delete" THEN "delete" ELSE "cancel",
                             rows, sortType, left, <<>>)
    /\ UNCHANGED <<engine, value, sortType, timer, sinceInput, burst>>

\* AlertResponse with a slip: the accounts are removed but checkNames is
\* not called afterwards.
AlertResponseNoRerun(response) ==
    /\ prompt
    /\ shownAtPrompt' = <<>>
    /\ prompt' = FALSE
    /\ IF response # "Delete"
       THEN /\ last' = [Event("cancel") EXCEPT !.startRows = rows,
                                                !.accountsBefore = accounts,
                                                !.bankersBefore = bankers]
            /\ UNCHANGED <<accounts, bankers, rows>>
       ELSE /\ accounts' = removeAccounts(accounts, RowNames(rows))
            /\ last' = [Event("delete") EXCEPT !.startRows = rows,
                                                !.accountsBefore = accounts,
                                                !.bankersBefore = bankers]
            /\ UNCHANGED <<bankers, rows>>
    /\ UNCHANGED <<engine, value, sortType, timer, sinceInput, burst>>

\* AlertResponse with a slip: the names to remove are those the page showed
\* when the prompt was opened, read before ui.alert is called.
AlertResponseNamesAtPrompt(response) ==
    /\ prompt
    /\ shownAtPrompt' = <<>>
    /\ prompt' = FALSE
    /\ IF response # "Delete"
       THEN /\ last' = [Event("cancel") EXCEPT !.startRows = rows,
                                                !.accountsBefore = accounts,
                                                !.bankersBefore = bankers]
            /\ UNCHANGED <<accounts, bankers, rows>>
       ELSE LET names == {shownAtPrompt[i] : i \in 1..Len(shownAtPrompt)}
                left  == removeAccounts(accounts, names)
            IN  /\ accounts' = left
                /\ CallCheckNames("delete", rows, sortType, left, <<>>)
    /\ UNCHANGED <<engine, value, sortType, timer, sinceInput, burst>>

\* AlertResponse with a slip: once checkNames has returned, the banker flags
\* of the removed accounts are cleared.
AlertResponseClearsFlags(response) ==
    /\ prompt
    /\ shownAtPrompt' = <<>>
    /\ prompt' = FALSE
    /\ IF response # "Delete"
       THEN /\ last' = [Event("cancel") EXCEPT !.startRows = rows,
                                                !.accountsBefore = accounts,
                                                !.bankersBefore = bankers]
            /\ UNCHANGED <<accounts, bankers, rows>>
       ELSE LET names == RowNames(rows)
                left  == removeAccounts(accounts, names)
                r     == checkNames(engine, rows, inputValue, sortType, left, bankers)
            IN  /\ accounts' = left
                /\ bankers' = r.bankers \ names
                /\ rows' = r.rows
                /\ last' = [Event("delete") EXCEPT
                               !.ran = TRUE,
                               !.value = inputValue,
                               !.startRows = rows,
                               !.reconciled = r.bankers,
                               !.sorted = r.sorted,
                               !.notices = r.notices,
                               !.accountsBefore = accounts,
                               !.bankersBefore = bankers,
                               !.atPrompt = shownAtPrompt]
    /\ UNCHANGED <<engine, value, sortType, timer, sinceInput, burst>>

\* The prompt is answered: the callback of ui.alert.
AlertResponse(response) ==
    /\ prompt
    /\ shownAtPrompt' = <<>>
    /\ prompt' = FALSE
    /\ IF response # "Delete"
       THEN /\ last' = [Event("cancel") EXCEPT !.startRows = rows,
                                                !.accountsBefore = accounts,
                                                !.bankersBefore = bankers]
            /\ UNCHANGED <<accounts, bankers, rows>>
       ELSE LET names == RowNames(rows)
                left  == removeAccounts(accounts, names)
            IN  /\ accounts' = left
                /\ CallCheckNames("delete", rows, sortType, left, <<>>)
    /\ UNCHANGED <<engine, value, sortType, timer, sinceInput, burst>>

\* Another actor (a chat command of the bot) sets or clears a banker flag.
ExternalSetBanker(n, flag) ==
    /\ isBanker(bankers, n) # flag
    /\ bankers' = setBanker(bankers, n, flag)
    /\ last' = Event("none")
    /\ UNCHANGED <<engine, shownAtPrompt, accounts, value, sortType, rows, timer, prompt,
                   sinceInput, burst>>

(***************************************************************************)
(* Bounded inputs                                                          *)
(***************************************************************************)
nAB  == <<"A","B">>
nBO  == <<"B","O">>
nBob == <<"B","o","b">>
nZed == <<"Z","E","D">>

\* Record Stores the panel is constructed on.
StoreA == << Account(nAB, 2, <<2000>>), Account(nBO, 2, <<>>) >>
Stores == {StoreA}

\* Banker Flag Stores the panel is constructed on; ZED has no account.
BankerSets == {{nZed}}

\* Names whose flag another actor changes.
ExternalNames == {nBO}

tEmpty    == <<>>
tIsBanker == <<"i","s",":","B","a","n","k","e","r">>
tBo       == <<"b","o">>

\* Texts the user types in the search box.
Texts == {tEmpty, tIsBanker, tBo}

(***************************************************************************)
(* The panel: Init is the state the constructor leaves, with the search    *)
(* box empty and checkNames called once by initAccountsTab.                *)
(***************************************************************************)
Mounted(eng, accts, bankerSet, st) ==
    LET r == checkNames(eng, <<>>, <<>>, st, accts, bankerSet)
    IN  /\ engine = eng
        /\ shownAtPrompt = <<>>
        /\ accounts = accts
        /\ bankers = r.bankers
        /\ value = <<>>
        /\ sortType = st
        /\ rows = r.rows
        /\ timer = <<>>
        /\ prompt = FALSE
        /\ sinceInput = Delay
        /\ burst = [events |-> 0, runs |-> 0]
        /\ last = [Event("mount") EXCEPT
                      !.ran = TRUE,
                      !.reconciled = r.bankers,
                      !.sorted = r.sorted,
                      !.notices = r.notices,
                      !.accountsBefore = accts,
                      !.bankersBefore = bankerSet]

Init ==
    \E eng \in Engines, accts \in Stores, b \in BankerSets, st \in SortTypes :
        Mounted(eng, accts, b, st)

Next ==
    \/ \E t \in Texts : Input(t)
    \/ Tick
    \/ DebounceFire
    \/ \E m \in SortTypes : ChangeSort(m)
    \/ \E i \in 1..MaxToggle : ToggleBanker(i)
    \/ OtherChange
    \/ DeleteClick
    \/ \E response \in Responses : AlertResponse(response)
    \/ \E n \in ExternalNames, flag \in BOOLEAN : ExternalSetBanker(n, flag)

Spec == Init /\ [][Next]_vars

(***************************************************************************)
(* A Record Store larger than the cap                                      *)
(***************************************************************************)
\* The decimal digits of a natural number, as a string.
RECURSIVE decimal(_)
decimal(i) ==
    IF i < 10 THEN <<Digits[i + 1]>>
    ELSE decimal(i \div 10) \o <<Digits[(i % 10) + 1]>>

\* Accounts P1 .. Pn.  Balances rise and award dates fall with the index,
\* except that every 50th account has balance 0 and every 10th has no award
\* date; the last account alone has balance 9.
BigStore(n) ==
    [i \in 1..n |->
        Account(<<"P">> \o decimal(i),
                IF i = n THEN 9 ELSE IF i % 50 = 0 THEN 0 ELSE 1 + (i \div 100),
                IF i % 10 = 0 THEN <<>> ELSE <<1000 * (5 - (i \div 100))>>)]

\* By how many accounts the large store exceeds the cap.
MaxOver == 1

BigStores == {BigStore(Cap + MaxOver)}

tBalLt9 == <<"B","a","l","a","n","c","e",":","<","9">>

\* Texts typed, and sort types chosen, on the large store.
CapTexts == {tEmpty, tBalLt9}
CapSortTypes == {"bal_a", "daily_d"}

InitCap ==
    \E eng \in Engines, accts \in BigStores, st \in CapSortTypes :
        Mounted(eng, accts, {}, st)

NextCap ==
    \/ \E t \in CapTexts : Input(t)
    \/ Tick
    \/ DebounceFire
    \/ \E m \in CapSortTypes : ChangeSort(m)
    \/ DeleteClick
    \/ \E response \in Responses : AlertResponse(response)

SpecCap == InitCap /\ [][NextCap]_vars

(***************************************************************************)
(* Properties of the panel (Spec)                                          *)
(***************************************************************************)

\* The names in the page.
Shown == {rows[i].account_name : i \in 1..Len(rows)}

\* C1: a burst of input events, each less than Delay after the one before,
\* gets exactly one debounced run of checkNames: none while the timer is
\* pending, one once it has fired.  That run starts only when Delay has
\* passed since the last input event, and it filters with the text the
\* search box holds when it fires: the rows it renders are the filtered,
\* sorted and capped accounts for that text.
C1_DebounceCoalescing ==
    /\ burst.events >= 1 =>
          \/ timer # <<>> /\ burst.runs = 0
          \/ timer = <<>> /\ burst.runs = 1
    /\ last.event = "fire" =>
          /\ timer = <<>>
          /\ last.quiet >= Delay
          /\ last.value = value
          /\ RowNameSeq(rows) =
                NamesOf(capAccounts(sort(engine,
                                         filterAccounts(value, accounts, last.reconciled),
                                         sortType)))

\* A burst of at least two input events has been coalesced into one run on
\* a non-empty text.
C1_Witness ==
    /\ last.event = "fire"
    /\ burst.events >= 2
    /\ burst.runs = 1
    /\ value # <<>>

\* C4: every call of checkNames first overwrites the banker flag of every
\* account whose row is in the page with that row's checkbox state, whatever
\* the store held; the store still agrees with those checkboxes when the
\* handler is done; and a run on the text IS:BANKER renders, of the accounts
\* that had a row, exactly those whose box was checked and that still exist.
C4_ReconcileBeforeRun ==
    last.ran =>
        \A i \in 1..Len(last.startRows) :
            LET row == last.startRows[i]
            IN  /\ (row.account_name \in last.reconciled) <=> row.checked
                /\ (row.account_name \in bankers) <=> row.checked
                /\ last.value = tIsBanker =>
                      ((\E j \in 1..Len(rows) : rows[j].account_name = row.account_name)
                       <=> (/\ row.checked
                            /\ \E k \in 1..Len(accounts) :
                                  accounts[k].name = row.account_name))

\* A run on IS:BANKER found a flag that another actor had set since the
\* last render, with the row's box unchecked, and cleared it.
C4_Witness ==
    /\ last.ran
    /\ last.value = tIsBanker
    /\ \E i \in 1..Len(last.startRows) :
          /\ ~last.startRows[i].checked
          /\ last.startRows[i].account_name \in last.bankersBefore
          /\ last.startRows[i].account_name \notin bankers

\* C6: an answer to the delete prompt other than 'Delete' leaves the Record
\* Store, the Banker Flag Store and the rendered rows as they were, and
\* calls checkNames not at all.
C6_CancelledDeletion ==
    last.event = "cancel" =>
        /\ ~last.ran
        /\ accounts = last.accountsBefore
        /\ bankers = last.bankersBefore
        /\ rows = last.startRows

\* The prompt was cancelled with rows in the page and accounts in the store.
C6_Witness ==
    /\ last.event = "cancel"
    /\ Len(rows) >= 1
    /\ Len(accounts) >= 1
    /\ ~prompt

\* The rows a run renders when it starts on a page without rows, as the
\* run of the constructor does: nothing is reconciled, and the list is
\* decided by the text, the sort type and the two stores alone.
FreshRows(text, st, accts, bankerSet) ==
    checkNames(engine, <<>>, text, st, accts, bankerSet).rows

\* C13 as claimed: the list a call of checkNames renders is decided by the
\* search text, the sort type, the Record Store and the Banker Flag Store
\* it starts with: it is the list a run on the same four renders from a
\* page without rows, whatever rows and checkbox states the page held.
C13_ViewDeterminism ==
    last.ran =>
        RowNameSeq(rows) =
            RowNameSeq(FreshRows(last.value, sortType, accounts, last.bankersBefore))

\* C13 as amended: the list is decided by the search text, the sort type,
\* the Record Store and the Banker Flag Store as reconciliation leaves it,
\* that is the store the run starts with overwritten by the checkbox
\* states of the rows in the page; a run on the same text, sort type and
\* Record Store and on that flag set renders the same rows.
C13_ViewDeterminedAfterReconcile ==
    last.ran =>
        /\ last.reconciled = updateBankers(last.startRows, last.bankersBefore,
                                           1, Len(last.startRows))
        /\ rows = FreshRows(last.value, sortType, accounts, last.reconciled)

\* A run on IS:BANKER started with a checked row of an account that the
\* Banker Flag Store did not hold: reconciliation set the flag and the
\* account was rendered, which a run on the flag set as stored would not
\* have done.
C13_Witness ==
    /\ last.ran
    /\ last.value = tIsBanker
    /\ \E i \in 1..Len(last.startRows) :
          /\ last.startRows[i].checked
          /\ last.startRows[i].account_name \notin last.bankersBefore
          /\ last.startRows[i].account_name \in Shown
    /\ RowNameSeq(rows) #
          RowNameSeq(FreshRows(last.value, sortType, accounts, last.bankersBefore))

\* C16: when the user has toggled the checkbox of a row, then at the end of
\* that change event, in which checkNames has run without any delay, the
\* Banker Flag Store holds the row's account name iff the box is now
\* checked, whether the run kept the row in the page or not.
C16_CheckboxToggle ==
    last.event = "toggle" =>
        /\ last.ran
        /\ Len(last.target) = 2
        /\ \E i \in 1..Len(last.startRows) :
              /\ last.startRows[i].account_name = last.target[1]
              /\ last.startRows[i].checked = last.target[2]
        /\ isBanker(bankers, last.target[1]) <=> last.target[2]

\* The box of a banker was unchecked while the search text was IS:BANKER:
\* the flag is cleared and the run of the same event dropped the row.
C16_Witness ==
    /\ last.event = "toggle"
    /\ last.value = tIsBanker
    /\ last.target[2] = FALSE
    /\ last.target[1] \in last.bankersBefore
    /\ last.target[1] \notin bankers
    /\ last.target[1] \notin Shown
    /\ \E k \in 1..Len(accounts) : accounts[k].name = last.target[1]

\* The names of the stored accounts, and the accounts a confirmed deletion
\* removed.
StoredNames(accts) == {accts[i].name : i \in 1..Len(accts)}
Removed == StoredNames(last.accountsBefore) \ StoredNames(accounts)

\* C19: the accounts a confirmed deletion removes are those with a row in
\* the page when the answer is delivered, whatever the page showed when
\* the prompt was opened: when a run of checkNames (of a pending debounce
\* timer, say) has changed the rows in between, the rows of that run
\* decide.
C19_DeleteReadsRowsAtAnswer ==
    last.event = "delete" =>
        /\ Removed = StoredNames(last.accountsBefore) \cap RowNames(last.startRows)
        /\ \A i \in 1..Len(last.atPrompt) :
              (last.atPrompt[i] \in StoredNames(last.accountsBefore)
               /\ last.atPrompt[i] \notin RowNames(last.startRows))
                  => last.atPrompt[i] \notin Removed

\* The timer of an input event fired while the prompt was open and the run
\* brought an account into the page that the page did not show when the
\* prompt was opened: 'Delete' removed that account too.
C19_Witness ==
    /\ last.event = "delete"
    /\ Len(last.atPrompt) >= 1
    /\ \E n \in Removed : \A i \in 1..Len(last.atPrompt) : last.atPrompt[i] # n

\* The names of the rows of the page a confirmed deletion started on, by
\* checkbox state.
CheckedNames == {last.startRows[i].account_name :
                    i \in {j \in 1..Len(last.startRows) : last.startRows[j].checked}}
UncheckedNames == {last.startRows[i].account_name :
                      i \in {j \in 1..Len(last.startRows) : ~last.startRows[j].checked}}

\* C20 as claimed: after a confirmed deletion every removed account whose
\* box was checked is in the Banker Flag Store, though no longer in the
\* Record Store, and no name that was in the Banker Flag Store before the
\* deletion is missing from it afterwards.
C20_FlagsSurviveDeletion ==
    last.event = "delete" =>
        /\ \A n \in Removed \cap CheckedNames :
              n \in bankers /\ n \notin StoredNames(accounts)
        /\ last.bankersBefore \subseteq bankers

\* C20 as amended: after a confirmed deletion every removed account whose
\* box was checked is in the Banker Flag Store, though no longer in the
\* Record Store; removeAccounts clears no flag, and the call of checkNames
\* that follows clears exactly the flags of the rows whose box was
\* unchecked (flags another actor had set since the rows were rendered).
C20_CheckedFlagsSurviveDeletion ==
    last.event = "delete" =>
        /\ \A n \in Removed \cap CheckedNames :
              n \in bankers /\ n \notin StoredNames(accounts)
        /\ bankers = (last.bankersBefore \cup CheckedNames) \ UncheckedNames

\* A confirmed deletion removed an account whose box was checked: its name
\* is still in the Banker Flag Store and no longer in the Record Store.
C20_Witness ==
    /\ last.event = "delete"
    /\ \E n \in Removed \cap CheckedNames :
          /\ n \in last.bankersBefore
          /\ n \in bankers
          /\ n \notin StoredNames(accounts)

(***************************************************************************)
(* Properties of the panel on a store larger than the cap (SpecCap)        *)
(***************************************************************************)
\* C2: after every call of checkNames the page holds at most Cap rows: the
\* whole filtered and sorted list when it has at most Cap accounts, and its
\* first Cap accounts, in the same order, when it has more.
C2_ResultCap ==
    last.ran =>
        /\ Len(rows) <= Cap
        /\ last.sorted = sort(engine,
                               filterAccounts(last.value, accounts, last.reconciled),
                               sortType)
        /\ Len(last.sorted) <= Cap => RowNameSeq(rows) = NamesOf(last.sorted)
        /\ Len(last.sorted) > Cap =>
              RowNameSeq(rows) = [i \in 1..Cap |-> last.sorted[i].name]

\* A debounced run matched more accounts than the cap and rendered Cap rows.
C2_Witness ==
    /\ last.event = "fire"
    /\ Len(last.sorted) > Cap
    /\ Len(rows) = Cap

\* C3: a call of checkNames sends one notice when more than Cap accounts
\* match, and none otherwise; the notice reports Cap and the number of
\* accounts that matched, counted before the list is cut.
C3_TruncationNotice ==
    last.ran =>
        LET matches == Len(filterAccounts(last.value, accounts, last.reconciled))
        IN  IF matches > Cap
            THEN last.notices = << <<Cap, matches>> >>
            ELSE last.notices = <<>>

\* A run after a change of sort type sent the one notice "Showing 300/n",
\* with n above the cap.
C3_Witness ==
    /\ last.event = "sort"
    /\ Len(last.notices) = 1
    /\ last.notices[1][1] = Cap
    /\ last.notices[1][2] > Cap
    /\ Len(rows) = Cap

\* C5: a confirmed deletion removes from the Record Store exactly the
\* accounts that had a row in the page (the others stay, in order, also
\* those that matched but were cut off by the cap), and the call of
\* checkNames that follows renders none of the removed accounts.
C5_ConfirmedDeletion ==
    last.event = "delete" =>
        LET shown == {last.startRows[i].account_name : i \in 1..Len(last.startRows)}
        IN  /\ last.ran
            /\ accounts = SelectSeq(last.accountsBefore, LAMBDA a : a.name \notin shown)
            /\ \A j \in 1..Len(rows) : rows[j].account_name \notin shown

\* A deletion was confirmed while the page showed Cap rows of a larger
\* match: the account that was cut off is still stored, and is now shown.
C5_Witness ==
    /\ last.event = "delete"
    /\ Len(last.accountsBefore) > Cap
    /\ Len(last.startRows) = Cap
    /\ Len(accounts) >= 1
    /\ Len(rows) >= 1

(***************************************************************************)
(* The query language (SpecQuery): the panel after construction and one    *)
(* input event, with the text typed drawn from the query texts below.      *)
(***************************************************************************)
\* Amounts of the balance queries: 0 .. MaxAmount, and a two-digit amount.
MaxAmount == 2
Amounts == (0..MaxAmount) \cup {11}

\* The ways a balance query is written: <<text before the keyword, the
\* keyword with its colon, text after the amount>>.
BalanceStyles ==
    { << <<>>, <<"b","a","l","a","n","c","e",":">>, <<>> >>,
      << <<" ">>, <<"B","A","L","A","N","C","E",":">>, <<" "," ">> >>,
      << <<>>, <<"B","a","l","A","n","c","E",":">>, <<" ">> >> }

Comparators == {<<>>, <<"<">>, <<">">>}

BalanceText(style, op, n) == style[1] \o style[2] \o op \o decimal(n) \o style[3]

\* 'balance' followed at once by '<' or '>' and the amount: no colon.
NoColonText(op, n) == <<"b","a","l","a","n","c","e">> \o op \o decimal(n)

tIsBankerPadded == <<" ","I","S",":","B","A","N","K","E","R"," ">>
IsBankerTexts == {tIsBanker, tIsBankerPadded}

tSpaces   == <<" "," ">>
tBO       == <<"B","O">>
tBob      == <<"B","o","b">>
tBpad     == <<"b"," ">>
tO        == <<"o">>
tX        == <<"x">>
tBalOnly  == <<"b","a","l","a","n","c","e",":">>
tBankers  == <<"i","s",":","b","a","n","k","e","r","s">>
tInside   == <<"a","b","a","l","a","n","c","e",":","1","x">>

\* Texts that are neither empty, nor the banker token, nor balance queries.
NameTexts == {tBo, tBO, tBob, tBpad, tO, tX, tBalOnly, tBankers}

\* Balance queries with text around the pattern: digits before it, a
\* comparator before or after it, both comparators.
tLtAfter    == <<"b","a","l","a","n","c","e",":","1","<","2">>
tBoth       == <<"b","a","l","a","n","c","e",":",">","1","<","2">>
tBothAfter  == <<"B","a","l","a","n","c","e",":","2",">","<">>
tDigitFirst == <<"1","2"," ","b","a","l","a","n","c","e",":","5">>
tGtBefore   == <<"x",">","b","a","l","a","n","c","e",":","1","y","9">>
tLtBefore   == <<" ","<","b","a","l","a","n","c","e",":","2"," ">>
PermissiveTexts == {tLtAfter, tBoth, tBothAfter, tDigitFirst, tGtBefore, tLtBefore}

QueryTexts ==
    {BalanceText(st, op, n) : st \in BalanceStyles, op \in Comparators, n \in Amounts}
    \cup {NoColonText(op, n) : op \in Comparators \ {<<>>}, n \in Amounts}
    \cup IsBankerTexts \cup NameTexts \cup {tSpaces, tInside}
    \cup PermissiveTexts

nXBal == <<"X","B","A","L","A","N","C","E",">","1">>

QueryStoreA == << Account(nAB, 2, <<2000>>), Account(nBob, 0, <<>>), Account(nBO, 11, <<1000>>) >>
QueryStoreB == << Account(nBO, -1, <<>>), Account(nAB, 1, <<3000>>), Account(nBob, 12, <<3000>>) >>
QueryStoreC == << Account(nXBal, 0, <<>>), Account(nAB, 5, <<>>) >>
QueryStores == {QueryStoreA, QueryStoreB, QueryStoreC}

QueryBankerSets == {{nBob, nZed}}

\* The state after the constructor and the input event that typed t.
InitQuery ==
    \E eng \in Engines, accts \in QueryStores, b \in QueryBankerSets,
       st \in SortTypes, t \in QueryTexts :
        LET r == checkNames(eng, <<>>, <<>>, st, accts, b)
        IN  /\ engine = eng
            /\ shownAtPrompt = <<>>
            /\ accounts = accts
            /\ bankers = r.bankers
            /\ value = t
            /\ sortType = st
            /\ rows = r.rows
            /\ timer = debounce
            /\ prompt = FALSE
            /\ sinceInput = 0
            /\ burst = [events |-> 1, runs |-> 0]
            /\ last = Event("none")

NextQuery ==
    \/ Tick
    \/ DebounceFire
    \/ \E n \in ExternalNames, flag \in BOOLEAN : ExternalSetBanker(n, flag)

SpecQuery == InitQuery /\ [][NextQuery]_vars

\* The names of the stored accounts that satisfy P.
Stored(P(_)) == {accounts[i].name : i \in {j \in 1..Len(accounts) : P(accounts[j])}}

\* C7: a run on 'balance:<n' renders exactly the accounts with balance < n,
\* on 'balance:>n' exactly those with balance > n, on 'balance:n' exactly
\* those with balance = n, in any letter case and with white space around.
C7_BalanceQueryColon ==
    last.ran =>
        \A st \in BalanceStyles, n \in Amounts :
            /\ last.value = BalanceText(st, <<"<">>, n)
                  => Shown = Stored(LAMBDA a : a.balance < n)
            /\ last.value = BalanceText(st, <<">">>, n)
                  => Shown = Stored(LAMBDA a : a.balance > n)
            /\ last.value = BalanceText(st, <<>>, n)
                  => Shown = Stored(LAMBDA a : a.balance = n)

\* A debounced run on an upper-case, padded 'BALANCE:<11' rendered some of
\* the accounts and left others out.
C7_Witness ==
    /\ last.event = "fire"
    /\ \E st \in BalanceStyles :
          /\ st[1] # <<>>
          /\ last.value = BalanceText(st, <<"<">>, 11)
    /\ Len(rows) >= 1
    /\ Len(rows) < Len(accounts)

\* C8 as claimed: a run on 'balance<n' or 'balance>n', written without the
\* colon, renders exactly the accounts with balance < n, or balance > n.
C8_NoColonIsBalanceQuery ==
    last.ran =>
        \A n \in Amounts :
            /\ last.value = NoColonText(<<"<">>, n)
                  => Shown = Stored(LAMBDA a : a.balance < n)
            /\ last.value = NoColonText(<<">">>, n)
                  => Shown = Stored(LAMBDA a : a.balance > n)

\* C8 as amended: without the colon the text is no balance query; the run
\* renders exactly the accounts whose name contains the text in upper case.
C8_NoColonIsNameSearch ==
    last.ran =>
        \A op \in Comparators \ {<<>>}, n \in Amounts :
            last.value = NoColonText(op, n)
               => Shown = Stored(LAMBDA a :
                             includes(a.name, <<"B","A","L","A","N","C","E">> \o op \o decimal(n)))

\* A debounced run on 'balance>1' rendered the account named XBALANCE>1,
\* whose balance is 0, and not the account with balance 5.
C8_Witness ==
    /\ last.event = "fire"
    /\ last.value = NoColonText(<<">">>, 1)
    /\ Shown = {nXBal}
    /\ \E i \in 1..Len(accounts) : accounts[i].balance > 1

\* C9 as claimed: a run on a text that is not empty after trimming, is not
\* IS:BANKER and does not match the balance pattern renders exactly the
\* accounts whose name, in upper case, contains the text in upper case.
C9_CaseInsensitiveNameSearch ==
    last.ran =>
        LET name == trim(toLocaleUpperCase(last.value))
        IN  (name # <<>> /\ name # IsBankerToken /\ ~balancePatternTest(name))
               => Shown = Stored(LAMBDA a : includes(toLocaleUpperCase(a.name), name))

\* C10: a run on IS:BANKER, in any letter case and with white space around,
\* renders exactly the stored accounts whose name is in the banker flag set
\* as it stands after the run's reconciliation, one row each; a banker name
\* without an account gets no row.
C10_IsBankerQuery ==
    (last.ran /\ last.value \in IsBankerTexts) =>
        /\ Shown = Stored(LAMBDA a : TRUE) \cap last.reconciled
        /\ Len(rows) = Cardinality(Shown)

\* A debounced run on IS:BANKER rendered some accounts and not others, while
\* the banker flag set also held ZED, which has no account.
C10_Witness ==
    /\ last.event = "fire"
    /\ last.value \in IsBankerTexts
    /\ nZed \in last.reconciled
    /\ Len(rows) >= 1
    /\ Len(rows) < Len(accounts)

\* The number written by the first run of digits of s, read from the left:
\* characters are skipped up to the first digit, then digits are
\* accumulated up to the first character that is none.
RECURSIVE firstNumber(_, _, _)
firstNumber(s, i, acc) ==
    IF i > Len(s) THEN (IF acc = <<>> THEN 0 ELSE acc[1])
    ELSE IF IsDigit(s[i])
         THEN firstNumber(s, i + 1, <<10 * (IF acc = <<>> THEN 0 ELSE acc[1]) + DigitVal(s[i])>>)
         ELSE IF acc = <<>> THEN firstNumber(s, i + 1, acc) ELSE acc[1]

HasChar(s, c) == \E i \in 1..Len(s) : s[i] = c

\* C17: a run on a text that the balance pattern matches anywhere takes as
\* amount the first run of digits of the whole text, and renders exactly
\* the accounts with balance < amount when the text holds a '<' anywhere
\* (also when it holds a '>' as well), else those with balance > amount
\* when it holds a '>' anywhere, else those with balance = amount; on
\* 'balance:1<2' it renders exactly the accounts with balance < 1.
C17_PermissiveBalanceQuery ==
    last.ran =>
        /\ balancePatternTest(last.value) =>
              LET amount == firstNumber(last.value, 1, <<>>)
              IN  IF HasChar(last.value, "<")
                  THEN Shown = Stored(LAMBDA a : a.balance < amount)
                  ELSE IF HasChar(last.value, ">")
                  THEN Shown = Stored(LAMBDA a : a.balance > amount)
                  ELSE Shown = Stored(LAMBDA a : a.balance = amount)
        /\ last.value = tLtAfter => Shown = Stored(LAMBDA a : a.balance < 1)

\* A debounced run on 'balance:>1<2' took '<' and the amount 1: it rendered
\* the accounts with balance below 1 and none of those above.
C17_Witness ==
    /\ last.event = "fire"
    /\ last.value = tBoth
    /\ Len(rows) >= 1
    /\ \A i \in 1..Len(rows) : rows[i].value < 1
    /\ \E k \in 1..Len(accounts) : accounts[k].balance > 1

(***************************************************************************)
(* The sort (SpecSort): the panel constructed on every order of a small    *)
(* record set in which balances tie, award dates tie, and two accounts     *)
(* have no award date; the user then changes the sort type or another      *)
(* field of the tab.                                                       *)
(***************************************************************************)
nCY  == <<"C","Y">>
nDee == <<"D","E","E">>

\* Award dates are epochs in milliseconds of the day the award was given,
\* hence positive.
SortRecords ==
    << Account(nAB, 2, <<2000>>), Account(nBO, 2, <<>>), Account(nCY, 1, <<>>),
       Account(nDee, 3, <<1000>>), Account(nBob, 1, <<2000>>) >>

\* How many of SortRecords the Record Store holds.
MaxSortLen == 4

\* The orders in which n accounts can be stored.
Orders(n) == Permutations(1..n)

SortStores ==
    LET n == Min2(MaxSortLen, Len(SortRecords))
    IN  {SelectSeq([i \in 1..n |-> SortRecords[p[i]]], LAMBDA a : TRUE) : p \in Orders(n)}

InitSort ==
    \E eng \in Engines, accts \in SortStores, st \in SortTypes :
        Mounted(eng, accts, {}, st)

NextSort ==
    \/ \E m \in SortTypes : ChangeSort(m)
    \/ OtherChange

SpecSort == InitSort /\ [][NextSort]_vars

\* The stored account a row was rendered from, and its place in getAll().
AccountOfRow(i) == CHOOSE a \in {accounts[k] : k \in 1..Len(accounts)} :
                       a.name = rows[i].account_name
PlaceOfRow(i) == CHOOSE k \in 1..Len(accounts) : accounts[k].name = rows[i].account_name

HasAward(a) == a.last_daily_award # <<>>

\* C11: after a call of checkNames with sort type daily_d or daily_a, every
\* row of an account that has an award date comes before every row of an
\* account that has none, whatever the order of the Record Store.
C11_MissingAwardLast ==
    (last.ran /\ sortType \in {"daily_d", "daily_a"}) =>
        \A i, j \in 1..Len(rows) :
            (HasAward(AccountOfRow(i)) /\ ~HasAward(AccountOfRow(j))) => i < j

\* The sort type was changed to daily_a on a store whose first account has
\* no award date and whose last has one; the rows end with the accounts
\* without award date.
C11_Witness ==
    /\ last.event = "sort"
    /\ sortType = "daily_a"
    /\ ~HasAward(accounts[1])
    /\ HasAward(accounts[Len(accounts)])
    /\ Len(rows) = Len(accounts)
    /\ HasAward(AccountOfRow(1))
    /\ ~HasAward(AccountOfRow(Len(rows)))

\* The sort key of an account under a sort type.
SortKey(st, a) == IF st \in {"bal_d", "bal_a"} THEN <<a.balance>> ELSE a.last_daily_award

\* C12 as claimed: after a call of checkNames, two rows whose accounts have
\* equal sort keys (equal balances; equal award dates or both none) are in
\* the order their accounts have in getAll().
C12_SortStability ==
    last.ran =>
        \A i, j \in 1..Len(rows) :
            (i < j /\ SortKey(sortType, AccountOfRow(i)) = SortKey(sortType, AccountOfRow(j)))
                => PlaceOfRow(i) < PlaceOfRow(j)

\* C18: after a call of checkNames, adjacent rows are in the selected
\* order: balances do not rise under bal_d and do not fall under bal_a;
\* award dates, where both rows have one, do not rise under daily_d and do
\* not fall under daily_a.
C18_OrderedView ==
    last.ran =>
        \A i \in 1..(Len(rows) - 1) :
            LET a == AccountOfRow(i)
                b == AccountOfRow(i + 1)
            IN  /\ sortType = "bal_d" => rows[i].value >= rows[i + 1].value
                /\ sortType = "bal_a" => rows[i].value <= rows[i + 1].value
                /\ (sortType = "daily_d" /\ HasAward(a) /\ HasAward(b))
                      => a.last_daily_award[1] >= b.last_daily_award[1]
                /\ (sortType = "daily_a" /\ HasAward(a) /\ HasAward(b))
                      => a.last_daily_award[1] <= b.last_daily_award[1]

\* A change of sort type reordered a store that was in neither balance
\* order: the rows now run from the lowest balance to the highest.
C18_Witness ==
    /\ last.event = "sort"
    /\ sortType = "bal_a"
    /\ Len(rows) = Len(accounts)
    /\ Len(rows) >= 3
    /\ rows[1].value < rows[Len(rows)].value
    /\ \E k \in 1..(Len(accounts) - 1) : accounts[k].balance > accounts[k + 1].balance
    /\ \E k \in 1..(Len(accounts) - 1) : accounts[k].balance < accounts[k + 1].balance

(***************************************************************************)
(* The panel alone (SpecPanel): the stores change only through the panel;  *)
(* no other actor writes a banker flag.                                    *)
(***************************************************************************)
NextPanel ==
    \/ \E t \in Texts : Input(t)
    \/ Tick
    \/ DebounceFire
    \/ \E m \in SortTypes : ChangeSort(m)
    \/ \E i \in 1..MaxToggle : ToggleBanker(i)
    \/ OtherChange
    \/ DeleteClick
    \/ \E response \in Responses : AlertResponse(response)

SpecPanel == Init /\ [][NextPanel]_vars

\* C14: whenever no debounce timer is pending, the rows in the page are the
\* rows checkNames renders for the text the search box holds, the sort
\* type selected and the two stores as they are, whatever immediate and
\* debounced runs came before and in whatever order.
C14_MostRecentEventWins ==
    timer = <<>> => rows = FreshRows(value, sortType, accounts, bankers)

\* The timer of a single input event that typed 'bo' has fired, and the
\* page already showed BO alone, unflagged, when it fired: the page the
\* input event found was the list of another text, so a change event ran
\* checkNames while the timer was pending, and the debounced run that
\* came last left the current list.
C14_Witness ==
    /\ last.event = "fire"
    /\ timer = <<>>
    /\ burst.events = 1
    /\ value = tBo
    /\ RowNameSeq(last.startRows) = <<nBO>>
    /\ nBO \notin last.bankersBefore
    /\ RowNameSeq(rows) = <<nBO>>
    /\ Len(accounts) >= 2

(***************************************************************************)
(* Store writes that fail (SpecFail).  The two stores are assumed to       *)
(* signal a failed write the way a synchronous JavaScript call does, by    *)
(* throwing.  No handler of the tab catches: the exception ends the        *)
(* listener that made the call, the statements after the call are not      *)
(* executed, and the other listeners of the same event still run.          *)
(***************************************************************************)
\* checkNamesThrows with a slip: the container is emptied when checkNames
\* starts, not when showAccounts is reached.
checkNamesThrowsCleared(rws, bankerSet, k) ==
    [bankers |-> updateBankers(rws, bankerSet, 1, k - 1),
     rows    |-> <<>>]

\* checkNames when the setBanker call for row k throws: the flags of the
\* rows before k have been written, and the filter, the sort and
\* showAccounts (which empties the container first) are not reached, so
\* the page keeps the rows it had.
checkNamesThrows(rws, bankerSet, k) ==
    [bankers |-> updateBankers(rws, bankerSet, 1, k - 1),
     rows    |-> rws]

\* The record of an event whose store write threw: the page and the stores
\* before the event.
Thrown(ev) ==
    [Event(ev) EXCEPT !.startRows = rows,
                      !.accountsBefore = accounts,
                      !.bankersBefore = bankers]

\* The debounce timer fires and the reconciliation of checkNames throws at
\* row k.
DebounceFireThrows(k) ==
    /\ timer = <<0>>
    /\ k \in 1..Len(rows)
    /\ timer' = <<>>
    /\ LET r == checkNamesThrows(rows, bankers, k)
       IN  /\ bankers' = r.bankers
           /\ rows' = r.rows
    /\ last' = Thrown("throw")
    /\ UNCHANGED <<engine, shownAtPrompt, accounts, value, sortType, prompt, sinceInput, burst>>

\* The user picks sort type m and the reconciliation throws at row k: the
\* radio button stays as picked.
ChangeSortThrows(m, k) ==
    /\ ~prompt
    /\ m # sortType
    /\ k \in 1..Len(rows)
    /\ sortType' = m
    /\ LET r == checkNamesThrows(rows, bankers, k)
       IN  /\ bankers' = r.bankers
           /\ rows' = r.rows
    /\ last' = Thrown("throw")
    /\ UNCHANGED <<engine, shownAtPrompt, accounts, value, timer, prompt, sinceInput, burst>>

\* The user toggles the checkbox of row i and the reconciliation throws at
\* row k; the second change listener then makes its own setBanker call for
\* row i, which succeeds (ok) or throws as well.
ToggleBankerThrows(i, k, ok) ==
    /\ ~prompt
    /\ i \in 1..Min2(Len(rows), MaxToggle)
    /\ k \in 1..Len(rows)
    /\ LET toggled == [rows EXCEPT ![i].checked = ~@]
           r       == checkNamesThrows(toggled, bankers, k)
       IN  /\ bankers' = IF ok THEN setBanker(r.bankers, toggled[i].account_name,
                                              toggled[i].checked)
                         ELSE r.bankers
           /\ rows' = r.rows
    /\ last' = Thrown("toggle_throw")
    /\ UNCHANGED <<engine, shownAtPrompt, accounts, value, sortType, timer, prompt, sinceInput, burst>>

\* 'Delete' is answered and removeAccounts throws, before the accounts are
\* removed or (done) after: checkNames, the next statement, is not reached.
AlertResponseRemoveThrows(done) ==
    /\ prompt
    /\ shownAtPrompt' = <<>>
    /\ prompt' = FALSE
    /\ accounts' = IF done THEN removeAccounts(accounts, RowNames(rows)) ELSE accounts
    /\ last' = Thrown("throw")
    /\ UNCHANGED <<engine, bankers, rows, value, sortType, timer, sinceInput, burst>>

\* 'Delete' is answered, the accounts are removed, and the reconciliation of
\* the checkNames call that follows throws at row k.
AlertResponseRerunThrows(k) ==
    /\ prompt
    /\ shownAtPrompt' = <<>>
    /\ k \in 1..Len(rows)
    /\ prompt' = FALSE
    /\ accounts' = removeAccounts(accounts, RowNames(rows))
    /\ LET r == checkNamesThrows(rows, bankers, k)
       IN  /\ bankers' = r.bankers
           /\ rows' = r.rows
    /\ last' = Thrown("throw")
    /\ UNCHANGED <<engine, value, sortType, timer, sinceInput, burst>>

\* The rows a failing write is tried at.
MaxThrowRow == 2

\* Texts typed and sort types chosen while store writes may fail.
FailTexts == {tEmpty, tBo}
FailSortTypes == {"bal_d", "daily_a"}

InitFail ==
    \E eng \in Engines, accts \in Stores, b \in BankerSets, st \in FailSortTypes :
        Mounted(eng, accts, b, st)

NextFail ==
    \/ \E t \in FailTexts : Input(t)
    \/ Tick
    \/ DebounceFire
    \/ \E m \in FailSortTypes : ChangeSort(m)
    \/ \E i \in 1..MaxToggle : ToggleBanker(i)
    \/ DeleteClick
    \/ \E response \in Responses : AlertResponse(response)
    \/ \E k \in 1..MaxThrowRow : DebounceFireThrows(k)
    \/ \E m \in FailSortTypes, k \in 1..MaxThrowRow : ChangeSortThrows(m, k)
    \/ \E i \in 1..MaxToggle, k \in 1..MaxThrowRow, ok \in BOOLEAN :
          ToggleBankerThrows(i, k, ok)
    \/ \E done \in BOOLEAN : AlertResponseRemoveThrows(done)
    \/ \E k \in 1..MaxThrowRow : AlertResponseRerunThrows(k)

SpecFail == InitFail /\ [][NextFail]_vars

\* A row without its checkbox state.
Unchecked(rws) == [i \in 1..Len(rws) |-> [rws[i] EXCEPT !.checked = FALSE]]

\* C15: when removeAccounts throws on a confirmed deletion, or a setBanker
\* call of the reconciliation throws, the page keeps exactly the rows it
\* had before the event (a toggled checkbox keeps the state the user gave
\* it, and nothing else differs): never an emptied or partly built list.
C15_StoreFailureKeepsDisplay ==
    /\ last.event = "throw" => rows = last.startRows
    /\ last.event = "toggle_throw" =>
          /\ Unchecked(rows) = Unchecked(last.startRows)
          /\ Cardinality({i \in 1..Len(rows) :
                              rows[i].checked # last.startRows[i].checked}) = 1

\* The reconciliation after a confirmed deletion threw at the second row:
\* the accounts are gone from the Record Store and the page still shows
\* the rows it showed.
C15_Witness ==
    /\ last.event = "throw"
    /\ Len(accounts) < Len(last.accountsBefore)
    /\ Len(rows) >= 2
    /\ rows = last.startRows
    /\ bankers # last.bankersBefore

=============================================================================
